---- MODULE Spec2Model ----
(***************************************************************************)
(* Model of the FFI boundary of mini-v8 (src/src/ffi.rs, src/src/error.rs):*)
(* tagged value descriptors, the Ref ownership wrapper and the three       *)
(* TryCatchDesc decomposition functions, together with the engine-side     *)
(* reference counts that mv8_value_ptr_clone / mv8_value_ptr_drop change.  *)
(***************************************************************************)
EXTENDS Integers, Sequences, FiniteSets, Bags, TLC

(* ------------------------------ bounds -------------------------------- *)
MaxHandles == 4      \* engine values that the host can hold handles to
MaxObjs    == 3      \* host-side objects (Value, ValueDesc, Error) alive at once
MaxByte    == 2      \* u8 payloads and flags range over 0..MaxByte
MaxF64     == 1      \* f64 payloads range over 0..MaxF64 (abstract bit patterns)
MaxBusy    == 0      \* inline objects are operated on while at most MaxBusy objects hold handles
MaxClones  == 5      \* clones made of one Ref in the Ref scenario

(* ------------------------------ domains ------------------------------- *)
Interfaces == 1..2
Handles    == 1..MaxHandles
Bytes      == 0..MaxByte
F64s       == 0..MaxF64

HandleTags == {"String", "Array", "Function", "Object"}
InlineTags == {"Null", "Undefined", "Number", "Boolean", "Date"}

\* enum ValueDescTag
ValueDescTag == {"Null", "Undefined", "Number", "Boolean", "Array",
                 "Function", "Date", "Object", "String"}

\* The engine instance an engine value lives in, and the script type of the
\* value (what tag the engine reports for it).
InstanceOf(h) == 1 + ((h - 1) % 2)
TypeOf(h) ==
    CASE (h - 1) % 4 = 0 -> "String"
      [] (h - 1) % 4 = 1 -> "Array"
      [] (h - 1) % 4 = 2 -> "Function"
      [] OTHER           -> "Object"

(* ------------------------- ValueDescPayload --------------------------- *)
\* union ValueDescPayload: the constructor VP { field: x } sets one field;
\* 0 in value_ptr is the null pointer.
VP_byte(b)      == [byte |-> b, number |-> 0, value_ptr |-> 0]
VP_number(f)    == [byte |-> 0, number |-> f, value_ptr |-> 0]
VP_value_ptr(p) == [byte |-> 0, number |-> 0, value_ptr |-> p]

\* ValueDesc::new
ValueDesc_new(tag, payload) == [tag |-> tag, payload |-> payload]

\* The descriptors the engine hands to the host: the payload field that the
\* tag selects is set, and a handle-backed tag is the type of its value.
EngineDescs ==
    {ValueDesc_new("Null", VP_byte(0)), ValueDesc_new("Undefined", VP_byte(0))}
    \cup {ValueDesc_new("Boolean", VP_byte(b)) : b \in Bytes}
    \cup {ValueDesc_new("Number", VP_number(f)) : f \in F64s}
    \cup {ValueDesc_new("Date", VP_number(f)) : f \in F64s}
    \cup {ValueDesc_new(TypeOf(h), VP_value_ptr(h)) : h \in Handles}

\* struct TryCatchDesc
TryCatchDescs == [value_desc : EngineDescs, is_exception : Bytes]

(* ------------------------------- Ref ---------------------------------- *)
NoRef == [mv8 |-> 0, value_ptr |-> 0]

\* engine call records, in the order the host issues them
CloneCall(interface, p) == [fn |-> "mv8_value_ptr_clone", interface |-> interface, value |-> p]
DropCall(p)             == [fn |-> "mv8_value_ptr_drop", interface |-> 0, value |-> p]

\* the pointer mv8_value_ptr_clone returns: a reference to the same engine value
mv8_value_ptr_clone(interface, p) == p

\* Ref::new
Ref_new(mv8, value_ptr) == [mv8 |-> mv8, value_ptr |-> value_ptr]

\* mutant of Ref::from_value_desc: the descriptor's destructor runs as well
Ref_from_value_desc_dropping(mv8, desc) ==
    [ref   |-> [mv8 |-> mv8, value_ptr |-> desc.payload.value_ptr],
     calls |-> <<DropCall(desc.payload.value_ptr)>>]

\* Ref::from_value_desc: the descriptor is wrapped in ManuallyDrop, its
\* destructor does not run
Ref_from_value_desc(mv8, desc) ==
    [ref |-> [mv8 |-> mv8, value_ptr |-> desc.payload.value_ptr], calls |-> <<>>]

\* mutant of Ref::clone: the Ref is copied without the acquire
Ref_clone_noacquire(r) ==
    [ref |-> [mv8 |-> r.mv8, value_ptr |-> r.value_ptr], calls |-> <<>>]

\* impl Clone for Ref
Ref_clone(r) ==
    [ref   |-> [mv8 |-> r.mv8, value_ptr |-> mv8_value_ptr_clone(r.mv8, r.value_ptr)],
     calls |-> <<CloneCall(r.mv8, r.value_ptr)>>]

\* mutant of Ref::drop: the handle is released twice
Ref_drop_twice(r) == <<DropCall(r.value_ptr), DropCall(r.value_ptr)>>

\* mutant of Ref::drop: the release is left for later
Ref_drop_deferred(r) == <<>>

\* impl Drop for Ref
Ref_drop(r) == <<DropCall(r.value_ptr)>>

\* mutant of ValueDesc::drop: the Function arm is missing
ValueDesc_drop_partial(desc) ==
    IF desc.tag \in {"String", "Array", "Object"}
    THEN <<DropCall(desc.payload.value_ptr)>>
    ELSE <<>>

\* impl Drop for ValueDesc
ValueDesc_drop(desc) ==
    IF desc.tag \in {"String", "Array", "Function", "Object"}
    THEN <<DropCall(desc.payload.value_ptr)>>
    ELSE <<>>

(* ------------------------------ Value --------------------------------- *)
\* enum Value: variant, and the field of the variant (the others at default)
MkValue(variant, b, f, r) == [variant |-> variant, b |-> b, f |-> f, ref |-> r]
Value_Undefined   == MkValue("Undefined", FALSE, 0, NoRef)
Value_Null        == MkValue("Null", FALSE, 0, NoRef)
Value_Boolean(b)  == MkValue("Boolean", b, 0, NoRef)
Value_Number(f)   == MkValue("Number", FALSE, f, NoRef)
Value_Date(f)     == MkValue("Date", FALSE, f, NoRef)
Value_Handle(variant, r) == MkValue(variant, FALSE, 0, r)

InlineValues ==
    {Value_Undefined, Value_Null}
    \cup {Value_Boolean(b) : b \in BOOLEAN}
    \cup {Value_Number(f) : f \in F64s}
    \cup {Value_Date(f) : f \in F64s}

\* Value::inner_ref: Some(ref) for the handle-backed variants
inner_ref(value) ==
    IF value.variant \in HandleTags THEN <<value.ref>> ELSE <<>>

\* drop of a Value: drops the Ref it holds, if any
Value_drop(value) ==
    IF value.variant \in HandleTags THEN Ref_drop(value.ref) ELSE <<>>

\* Clone of a Value: clones the Ref it holds, if any
Value_clone(value) ==
    IF value.variant \in HandleTags
    THEN LET c == Ref_clone(value.ref)
         IN [value |-> Value_Handle(value.variant, c.ref), calls |-> c.calls]
    ELSE [value |-> value, calls |-> <<>>]

(* ------------------------- host-side objects -------------------------- *)
NoValue == MkValue("-", FALSE, 0, NoRef)
NoDesc  == ValueDesc_new("-", VP_byte(0))

HValue(v) == [kind |-> "Value", value |-> v, desc |-> NoDesc]
HDesc(d)  == [kind |-> "ValueDesc", value |-> NoValue, desc |-> d]
HError(v) == [kind |-> "Error::Value", value |-> v, desc |-> NoDesc]
HUnit     == [kind |-> "()", value |-> NoValue, desc |-> NoDesc]
\* an Error of a kind that carries no Value
HOther(kind) == [kind |-> kind, value |-> NoValue, desc |-> NoDesc]

\* the engine calls made when a host-side object is destroyed
Obj_drop(o) ==
    CASE o.kind = "Value"        -> Value_drop(o.value)
      [] o.kind = "Error::Value" -> Value_drop(o.value)
      [] o.kind = "ValueDesc"    -> ValueDesc_drop(o.desc)
      [] OTHER                   -> <<>>

(* --------------------------- conversions ------------------------------ *)
\* mutant of desc_to_value: a Date descriptor is lifted as a Number
desc_to_value_date_as_number(mv8, desc) ==
    CASE desc.tag = "Null"      -> [value |-> Value_Null, calls |-> ValueDesc_drop(desc)]
      [] desc.tag = "Undefined" -> [value |-> Value_Undefined, calls |-> ValueDesc_drop(desc)]
      [] desc.tag = "Boolean"   -> [value |-> Value_Boolean(desc.payload.byte # 0),
                                    calls |-> ValueDesc_drop(desc)]
      [] desc.tag = "Number"    -> [value |-> Value_Number(desc.payload.number),
                                    calls |-> ValueDesc_drop(desc)]
      [] desc.tag = "Date"      -> [value |-> Value_Number(desc.payload.number),
                                    calls |-> ValueDesc_drop(desc)]
      [] desc.tag = "Array"     -> LET r == Ref_from_value_desc(mv8, desc)
                                   IN [value |-> Value_Handle("Array", r.ref), calls |-> r.calls]
      [] desc.tag = "Function"  -> LET r == Ref_from_value_desc(mv8, desc)
                                   IN [value |-> Value_Handle("Function", r.ref), calls |-> r.calls]
      [] desc.tag = "Object"    -> LET r == Ref_from_value_desc(mv8, desc)
                                   IN [value |-> Value_Handle("Object", r.ref), calls |-> r.calls]
      [] desc.tag = "String"    -> LET r == Ref_from_value_desc(mv8, desc)
                                   IN [value |-> Value_Handle("String", r.ref), calls |-> r.calls]

\* mutant of desc_to_value: a Function descriptor is lifted as an Object
desc_to_value_function_as_object(mv8, desc) ==
    CASE desc.tag = "Null"      -> [value |-> Value_Null, calls |-> ValueDesc_drop(desc)]
      [] desc.tag = "Undefined" -> [value |-> Value_Undefined, calls |-> ValueDesc_drop(desc)]
      [] desc.tag = "Boolean"   -> [value |-> Value_Boolean(desc.payload.byte # 0),
                                    calls |-> ValueDesc_drop(desc)]
      [] desc.tag = "Number"    -> [value |-> Value_Number(desc.payload.number),
                                    calls |-> ValueDesc_drop(desc)]
      [] desc.tag = "Date"      -> [value |-> Value_Date(desc.payload.number),
                                    calls |-> ValueDesc_drop(desc)]
      [] desc.tag = "Array"     -> LET r == Ref_from_value_desc(mv8, desc)
                                   IN [value |-> Value_Handle("Array", r.ref), calls |-> r.calls]
      [] desc.tag = "Function"  -> LET r == Ref_from_value_desc(mv8, desc)
                                   IN [value |-> Value_Handle("Object", r.ref), calls |-> r.calls]
      [] desc.tag = "Object"    -> LET r == Ref_from_value_desc(mv8, desc)
                                   IN [value |-> Value_Handle("Object", r.ref), calls |-> r.calls]
      [] desc.tag = "String"    -> LET r == Ref_from_value_desc(mv8, desc)
                                   IN [value |-> Value_Handle("String", r.ref), calls |-> r.calls]

\* mutant of desc_to_value: only the byte 1 is lifted as true
desc_to_value_bool_eq_one(mv8, desc) ==
    CASE desc.tag = "Null"      -> [value |-> Value_Null, calls |-> ValueDesc_drop(desc)]
      [] desc.tag = "Undefined" -> [value |-> Value_Undefined, calls |-> ValueDesc_drop(desc)]
      [] desc.tag = "Boolean"   -> [value |-> Value_Boolean(desc.payload.byte = 1),
                                    calls |-> ValueDesc_drop(desc)]
      [] desc.tag = "Number"    -> [value |-> Value_Number(desc.payload.number),
                                    calls |-> ValueDesc_drop(desc)]
      [] desc.tag = "Date"      -> [value |-> Value_Date(desc.payload.number),
                                    calls |-> ValueDesc_drop(desc)]
      [] desc.tag = "Array"     -> LET r == Ref_from_value_desc(mv8, desc)
                                   IN [value |-> Value_Handle("Array", r.ref), calls |-> r.calls]
      [] desc.tag = "Function"  -> LET r == Ref_from_value_desc(mv8, desc)
                                   IN [value |-> Value_Handle("Function", r.ref), calls |-> r.calls]
      [] desc.tag = "Object"    -> LET r == Ref_from_value_desc(mv8, desc)
                                   IN [value |-> Value_Handle("Object", r.ref), calls |-> r.calls]
      [] desc.tag = "String"    -> LET r == Ref_from_value_desc(mv8, desc)
                                   IN [value |-> Value_Handle("String", r.ref), calls |-> r.calls]

\* desc_to_value: a handle-backed descriptor is moved into the Ref; an inline
\* one is dropped at the end of the function
desc_to_value(mv8, desc) ==
    CASE desc.tag = "Null"      -> [value |-> Value_Null, calls |-> ValueDesc_drop(desc)]
      [] desc.tag = "Undefined" -> [value |-> Value_Undefined, calls |-> ValueDesc_drop(desc)]
      [] desc.tag = "Boolean"   -> [value |-> Value_Boolean(desc.payload.byte # 0),
                                    calls |-> ValueDesc_drop(desc)]
      [] desc.tag = "Number"    -> [value |-> Value_Number(desc.payload.number),
                                    calls |-> ValueDesc_drop(desc)]
      [] desc.tag = "Date"      -> [value |-> Value_Date(desc.payload.number),
                                    calls |-> ValueDesc_drop(desc)]
      [] desc.tag = "Array"     -> LET r == Ref_from_value_desc(mv8, desc)
                                   IN [value |-> Value_Handle("Array", r.ref), calls |-> r.calls]
      [] desc.tag = "Function"  -> LET r == Ref_from_value_desc(mv8, desc)
                                   IN [value |-> Value_Handle("Function", r.ref), calls |-> r.calls]
      [] desc.tag = "Object"    -> LET r == Ref_from_value_desc(mv8, desc)
                                   IN [value |-> Value_Handle("Object", r.ref), calls |-> r.calls]
      [] desc.tag = "String"    -> LET r == Ref_from_value_desc(mv8, desc)
                                   IN [value |-> Value_Handle("String", r.ref), calls |-> r.calls]

\* mutant of ref_val: the pointer is copied without the acquire
ref_val_noclone(r) == [value_ptr |-> r.value_ptr, calls |-> <<>>]

\* value_to_desc::ref_val
ref_val(r) ==
    [value_ptr |-> mv8_value_ptr_clone(r.mv8, r.value_ptr),
     calls     |-> <<CloneCall(r.mv8, r.value_ptr)>>]

\* mutant of value_to_desc: the instance check is missing
value_to_desc_unchecked(mv8, value) ==
    IF FALSE
    THEN [panic |-> TRUE, desc |-> NoDesc, calls |-> <<>>]
    ELSE CASE value.variant = "Undefined" ->
                [panic |-> FALSE, desc |-> ValueDesc_new("Undefined", VP_byte(0)), calls |-> <<>>]
           [] value.variant = "Null" ->
                [panic |-> FALSE, desc |-> ValueDesc_new("Null", VP_byte(0)), calls |-> <<>>]
           [] value.variant = "Boolean" ->
                [panic |-> FALSE,
                 desc  |-> ValueDesc_new("Boolean", VP_byte(IF value.b THEN 1 ELSE 0)),
                 calls |-> <<>>]
           [] value.variant = "Number" ->
                [panic |-> FALSE, desc |-> ValueDesc_new("Number", VP_number(value.f)), calls |-> <<>>]
           [] value.variant = "Date" ->
                [panic |-> FALSE, desc |-> ValueDesc_new("Date", VP_number(value.f)), calls |-> <<>>]
           [] value.variant = "Array" ->
                LET c == ref_val(value.ref)
                IN [panic |-> FALSE, desc |-> ValueDesc_new("Array", VP_value_ptr(c.value_ptr)),
                    calls |-> c.calls]
           [] value.variant = "Function" ->
                LET c == ref_val(value.ref)
                IN [panic |-> FALSE, desc |-> ValueDesc_new("Function", VP_value_ptr(c.value_ptr)),
                    calls |-> c.calls]
           [] value.variant = "Object" ->
                LET c == ref_val(value.ref)
                IN [panic |-> FALSE, desc |-> ValueDesc_new("Object", VP_value_ptr(c.value_ptr)),
                    calls |-> c.calls]
           [] value.variant = "String" ->
                LET c == ref_val(value.ref)
                IN [panic |-> FALSE, desc |-> ValueDesc_new("String", VP_value_ptr(c.value_ptr)),
                    calls |-> c.calls]

\* value_to_desc: panics on a Value of another instance, before any engine call
value_to_desc(mv8, value) ==
    IF inner_ref(value) # <<>> /\ inner_ref(value)[1].mv8 # mv8
    THEN [panic |-> TRUE, desc |-> NoDesc, calls |-> <<>>]
    ELSE CASE value.variant = "Undefined" ->
                [panic |-> FALSE, desc |-> ValueDesc_new("Undefined", VP_byte(0)), calls |-> <<>>]
           [] value.variant = "Null" ->
                [panic |-> FALSE, desc |-> ValueDesc_new("Null", VP_byte(0)), calls |-> <<>>]
           [] value.variant = "Boolean" ->
                [panic |-> FALSE,
                 desc  |-> ValueDesc_new("Boolean", VP_byte(IF value.b THEN 1 ELSE 0)),
                 calls |-> <<>>]
           [] value.variant = "Number" ->
                [panic |-> FALSE, desc |-> ValueDesc_new("Number", VP_number(value.f)), calls |-> <<>>]
           [] value.variant = "Date" ->
                [panic |-> FALSE, desc |-> ValueDesc_new("Date", VP_number(value.f)), calls |-> <<>>]
           [] value.variant = "Array" ->
                LET c == ref_val(value.ref)
                IN [panic |-> FALSE, desc |-> ValueDesc_new("Array", VP_value_ptr(c.value_ptr)),
                    calls |-> c.calls]
           [] value.variant = "Function" ->
                LET c == ref_val(value.ref)
                IN [panic |-> FALSE, desc |-> ValueDesc_new("Function", VP_value_ptr(c.value_ptr)),
                    calls |-> c.calls]
           [] value.variant = "Object" ->
                LET c == ref_val(value.ref)
                IN [panic |-> FALSE, desc |-> ValueDesc_new("Object", VP_value_ptr(c.value_ptr)),
                    calls |-> c.calls]
           [] value.variant = "String" ->
                LET c == ref_val(value.ref)
                IN [panic |-> FALSE, desc |-> ValueDesc_new("String", VP_value_ptr(c.value_ptr)),
                    calls |-> c.calls]

(* -------------------------- decomposition ----------------------------- *)
\* mutant of desc_to_result: an exception is returned as a success
desc_to_result_swallowing(mv8, desc) ==
    LET v == desc_to_value(mv8, desc.value_desc)
    IN [ok |-> TRUE, obj |-> HValue(v.value), calls |-> v.calls]

\* desc_to_result
desc_to_result(mv8, desc) ==
    LET v == desc_to_value(mv8, desc.value_desc)
    IN IF desc.is_exception = 0
       THEN [ok |-> TRUE, obj |-> HValue(v.value), calls |-> v.calls]
       ELSE [ok |-> FALSE, obj |-> HError(v.value), calls |-> v.calls]

\* mutant of desc_to_result_noval: the success payload is forgotten, not dropped
desc_to_result_noval_leak(mv8, desc) ==
    LET is_exception == (desc.is_exception = 1)
    IN IF ~is_exception
       THEN [ok |-> TRUE, obj |-> HUnit, calls |-> <<>>]
       ELSE LET v == desc_to_value(mv8, desc.value_desc)
            IN [ok |-> FALSE, obj |-> HError(v.value), calls |-> v.calls]

\* mutant of desc_to_result_noval: the exception surfaces as another error kind
desc_to_result_noval_other_kind(mv8, desc) ==
    LET is_exception == (desc.is_exception = 1)
    IN IF ~is_exception
       THEN [ok |-> TRUE, obj |-> HUnit, calls |-> ValueDesc_drop(desc.value_desc)]
       ELSE [ok |-> FALSE, obj |-> HOther("Error::ExternalError"),
             calls |-> ValueDesc_drop(desc.value_desc)]

\* desc_to_result_noval: on Ok the descriptor is still owned by the argument
\* and is dropped when the function returns
desc_to_result_noval(mv8, desc) ==
    LET is_exception == (desc.is_exception = 1)
    IN IF ~is_exception
       THEN [ok |-> TRUE, obj |-> HUnit, calls |-> ValueDesc_drop(desc.value_desc)]
       ELSE LET v == desc_to_value(mv8, desc.value_desc)
            IN [ok |-> FALSE, obj |-> HError(v.value), calls |-> v.calls]

\* mutant of desc_to_result_val: the success descriptor is handed on through
\* one more acquire
desc_to_result_val_cloning(mv8, desc) ==
    LET is_exception == (desc.is_exception = 1)
    IN IF ~is_exception
       THEN [ok |-> TRUE, obj |-> HDesc(desc.value_desc),
             calls |-> IF desc.value_desc.tag \in HandleTags
                       THEN <<CloneCall(mv8, desc.value_desc.payload.value_ptr)>>
                       ELSE <<>>]
       ELSE LET v == desc_to_value(mv8, desc.value_desc)
            IN [ok |-> FALSE, obj |-> HError(v.value), calls |-> v.calls]

\* mutant of desc_to_result_val: the descriptor's destructor runs before the
\* descriptor is returned
desc_to_result_val_dropping(mv8, desc) ==
    LET is_exception == (desc.is_exception = 1)
    IN IF ~is_exception
       THEN [ok |-> TRUE, obj |-> HDesc(desc.value_desc),
             calls |-> ValueDesc_drop(desc.value_desc)]
       ELSE LET v == desc_to_value(mv8, desc.value_desc)
            IN [ok |-> FALSE, obj |-> HError(v.value), calls |-> v.calls]

\* desc_to_result_val
desc_to_result_val(mv8, desc) ==
    LET is_exception == (desc.is_exception = 1)
    IN IF ~is_exception
       THEN [ok |-> TRUE, obj |-> HDesc(desc.value_desc), calls |-> <<>>]
       ELSE LET v == desc_to_value(mv8, desc.value_desc)
            IN [ok |-> FALSE, obj |-> HError(v.value), calls |-> v.calls]

(* ------------------------------- Error -------------------------------- *)
\* enum Error: the kind and the fields of the kind (the others at default)
MkError(kind, from, to, ext, value) ==
    [kind |-> kind, from |-> from, to |-> to, ext |-> ext, value |-> value]
NoError == MkError("-", "", "", "", NoValue)

\* Error::to_js_conversion, Error::from_js_conversion,
\* Error::recursive_mut_callback, Error::not_a_function
Error_to_js_conversion(from, to)   == MkError("ToJsConversionError", from, to, "", NoValue)
Error_from_js_conversion(from, to) == MkError("FromJsConversionError", from, to, "", NoValue)
Error_recursive_mut_callback       == MkError("RecursiveMutCallback", "", "", "", NoValue)
Error_not_a_function               == MkError("NotAFunction", "", "", "", NoValue)
Error_ExternalError(ext)           == MkError("ExternalError", "", "", ext, NoValue)
Error_Value(value)                 == MkError("Value", "", "", "", value)

\* the errors that carry no Value: type names and an external error's text
\* are arbitrary strings
PlainErrors ==
    {Error_to_js_conversion("i32", "string"), Error_from_js_conversion("object", "Vec"),
     Error_recursive_mut_callback, Error_not_a_function, Error_ExternalError("oops")}

\* Value::type_name
Value_type_name(value) == value.variant

\* impl fmt::Display for Error: the pieces written, in order
Display(e) ==
    CASE e.kind = "ToJsConversionError" ->
            <<"error converting ", e.from, " to JavaScript ", e.to>>
      [] e.kind = "FromJsConversionError" ->
            <<"error converting JavaScript ", e.from, " to ", e.to>>
      [] e.kind = "RecursiveMutCallback" -> <<"mutable callback called recursively">>
      [] e.kind = "NotAFunction" -> <<"tried to a call a non-function">>
      [] e.kind = "ExternalError" -> <<e.ext>>
      [] e.kind = "Value" ->
            <<"JavaScript runtime error (", Value_type_name(e.value), ")">>

\* MiniV8::create_object: the engine makes an object and returns an owned
\* ValuePtr h, which the host wraps
create_object(mv8, h) == Value_Handle("Object", Ref_new(mv8, h))

\* Object::set(key, value), as issued; its Result is discarded by the caller
SetCall(key, value) == [key |-> key, value |-> value]

\* mutant of Error::to_value: the message is not set on the object
Error_to_value_no_message(e, mv8, h) ==
    CASE e.kind = "Value" -> [value |-> e.value, created |-> FALSE, sets |-> <<>>]
      [] e.kind \in {"ToJsConversionError", "FromJsConversionError", "NotAFunction"} ->
            [value |-> create_object(mv8, h), created |-> TRUE,
             sets  |-> <<SetCall("name", <<"TypeError">>)>>]
      [] OTHER ->
            [value |-> create_object(mv8, h), created |-> TRUE,
             sets  |-> <<SetCall("name", <<"Error">>)>>]

\* mutant of Error::to_value: NotAFunction falls into the last arm
Error_to_value_two_type_errors(e, mv8, h) ==
    CASE e.kind = "Value" -> [value |-> e.value, created |-> FALSE, sets |-> <<>>]
      [] e.kind \in {"ToJsConversionError", "FromJsConversionError"} ->
            [value |-> create_object(mv8, h), created |-> TRUE,
             sets  |-> <<SetCall("name", <<"TypeError">>), SetCall("message", Display(e))>>]
      [] OTHER ->
            [value |-> create_object(mv8, h), created |-> TRUE,
             sets  |-> <<SetCall("name", <<"Error">>), SetCall("message", Display(e))>>]

\* Error::to_value(self, mv8); h is the ValuePtr that create_object gets
Error_to_value(e, mv8, h) ==
    CASE e.kind = "Value" -> [value |-> e.value, created |-> FALSE, sets |-> <<>>]
      [] e.kind \in {"ToJsConversionError", "FromJsConversionError", "NotAFunction"} ->
            [value |-> create_object(mv8, h), created |-> TRUE,
             sets  |-> <<SetCall("name", <<"TypeError">>), SetCall("message", Display(e))>>]
      [] OTHER ->
            [value |-> create_object(mv8, h), created |-> TRUE,
             sets  |-> <<SetCall("name", <<"Error">>), SetCall("message", Display(e))>>]

(* ------------------------------ engine -------------------------------- *)
VARIABLES
    rc,        \* engine: number of references the engine counts for each value
    faults,    \* engine: misuse seen by the engine (release or acquire of a dead handle)
    heap,      \* host: bag of the live objects that hold a handle
    last,      \* the last operation: its arguments, its result, its engine calls
    panicked,  \* the host process panicked
    tally      \* history of the Ref scenario: clones made, acquires and releases issued

vars == <<rc, faults, heap, last, panicked, tally>>

\* mv8_value_ptr_clone / mv8_value_ptr_drop applied to the engine state
EngineCall(eng, call) ==
    IF call.fn = "mv8_value_ptr_clone"
    THEN [rc     |-> [eng.rc EXCEPT ![call.value] = @ + 1],
          faults |-> IF eng.rc[call.value] = 0
                     THEN eng.faults \cup {"use_after_release"} ELSE eng.faults]
    ELSE IF eng.rc[call.value] = 0
         THEN [rc |-> eng.rc, faults |-> eng.faults \cup {"double_release"}]
         ELSE [rc |-> [eng.rc EXCEPT ![call.value] = @ - 1], faults |-> eng.faults]

RECURSIVE EngineCalls(_, _)
EngineCalls(eng, calls) ==
    IF calls = <<>> THEN eng
    ELSE EngineCalls(EngineCall(eng, Head(calls)), Tail(calls))

\* an engine entry point returns a value: the engine counts one more
\* reference for a handle it hands out (mv8_object_new, mv8_object_get, ...)
EngineReturns(eng, desc) ==
    IF desc.tag \in HandleTags
    THEN [rc |-> [eng.rc EXCEPT ![desc.payload.value_ptr] = @ + 1], faults |-> eng.faults]
    ELSE eng

(* ------------------------------ owners -------------------------------- *)
\* the handle a host-side object owns a reference to (0: none)
OwnedHandle(o) ==
    CASE o.kind \in {"Value", "Error::Value"} /\ o.value.variant \in HandleTags ->
            o.value.ref.value_ptr
      [] o.kind = "ValueDesc" /\ o.desc.tag \in HandleTags -> o.desc.payload.value_ptr
      [] OTHER -> 0

RECURSIVE CountOwners(_, _, _)
CountOwners(h, bag, objs) ==
    IF objs = {} THEN 0
    ELSE LET o == CHOOSE x \in objs : TRUE
         IN (IF OwnedHandle(o) = h THEN CopiesIn(o, bag) ELSE 0)
            + CountOwners(h, bag, objs \ {o})

Owners(h) == CountOwners(h, heap, BagToSet(heap))

\* Inline objects hold nothing of the engine; the host makes and forgets them
\* freely, so only the objects that hold a handle are tracked.
InlineDescs == {d \in EngineDescs : d.tag \in InlineTags}
InlineObjs ==
    {HValue(v) : v \in InlineValues} \cup {HError(v) : v \in InlineValues}
    \cup {HDesc(d) : d \in InlineDescs}

Live(o)      == BagIn(o, heap) \/ o \in InlineObjs
LiveObjs     == BagToSet(heap) \cup InlineObjs
Put(bag, o)  == IF OwnedHandle(o) = 0 THEN bag ELSE bag (+) SetToBag({o})
Take(bag, o) == IF OwnedHandle(o) = 0 THEN bag ELSE bag (-) SetToBag({o})
Room         == BagCardinality(heap) < MaxObjs
\* An operation on an inline object neither reads nor changes the engine or the
\* tracked objects: it is explored from the states with few tracked objects.
Reach(o)     == OwnedHandle(o) = 0 => BagCardinality(heap) <= MaxBusy

\* The record of an operation. from: when the argument of a conversion is the
\* result of the conversion just before it, the argument of that conversion.
\* err, sets, setok: the Error that Error::to_value consumed, the property
\* sets it issued and whether each succeeded.
NoOp == [op |-> "-", mv8 |-> 0, arg |-> HUnit, flag |-> 0, ok |-> TRUE,
         ret |-> HUnit, calls |-> <<>>, panic |-> FALSE, from |-> HUnit,
         err |-> NoError, sets |-> <<>>, setok |-> <<>>]

Op(op, mv8, arg, flag, ok, ret, calls, panic) ==
    [op |-> op, mv8 |-> mv8, arg |-> arg, flag |-> flag, ok |-> ok,
     ret |-> ret, calls |-> calls, panic |-> panic, from |-> HUnit,
     err |-> NoError, sets |-> <<>>, setok |-> <<>>]

Conversions == {"value_to_desc", "desc_to_value"}
ConvOp(op, mv8, arg, ok, ret, calls, panic) ==
    [Op(op, mv8, arg, 0, ok, ret, calls, panic) EXCEPT
        !.from = IF last.op \in Conversions /\ last.op # op /\ last.ret = arg
                 THEN last.arg ELSE HUnit]

Engine == [rc |-> rc, faults |-> faults]

NoTally == [clones |-> 0, acquires |-> 0, releases |-> 0]

Init ==
    /\ rc = [h \in Handles |-> 0]
    /\ faults = {}
    /\ heap = EmptyBag
    /\ last = NoOp
    /\ panicked = FALSE
    /\ tally = NoTally

(* ------------------------------ actions ------------------------------- *)
\* The engine creates or looks up a value and returns an owned ValuePtr
\* (mv8_object_new, mv8_string_new, mv8_interface_global, ...); the host
\* wraps it with Ref::new.
DoWrap(h) ==
    /\ ~panicked
    /\ LET eng == EngineReturns(Engine, ValueDesc_new(TypeOf(h), VP_value_ptr(h)))
           v   == Value_Handle(TypeOf(h), Ref_new(InstanceOf(h), h))
       IN /\ rc' = eng.rc
          /\ faults' = eng.faults
          /\ heap' = Put(heap, HValue(v))
          /\ last' = Op("Ref::new", InstanceOf(h), HUnit, 0, TRUE, HValue(v), <<>>, FALSE)
    /\ UNCHANGED panicked

\* Ref::clone on the Ref of a live handle-backed Value.
DoClone(o) ==
    /\ ~panicked
    /\ BagIn(o, heap) /\ o.kind = "Value"
    /\ LET c   == Value_clone(o.value)
           eng == EngineCalls(Engine, c.calls)
       IN /\ rc' = eng.rc
          /\ faults' = eng.faults
          /\ heap' = Put(heap, HValue(c.value))
          /\ last' = Op("Ref::clone", o.value.ref.mv8, o, 0, TRUE, HValue(c.value), c.calls, FALSE)
    /\ UNCHANGED panicked

\* A live Value, ValueDesc or Error goes out of scope.
DoDrop(o) ==
    /\ ~panicked
    /\ Live(o) /\ Reach(o)
    /\ LET calls == Obj_drop(o)
           eng   == EngineCalls(Engine, calls)
       IN /\ rc' = eng.rc
          /\ faults' = eng.faults
          /\ heap' = Take(heap, o)
          /\ last' = Op("drop", 0, o, 0, TRUE, HUnit, calls, FALSE)
    /\ UNCHANGED panicked

Wrap(h)  == Room /\ DoWrap(h) /\ UNCHANGED tally
Clone(o) == Room /\ DoClone(o) /\ UNCHANGED tally
Drop(o)  == DoDrop(o) /\ UNCHANGED tally

\* value_to_desc(mv8, &value) on a live Value; the Value stays alive.
ValueToDesc(mv8, o) ==
    /\ ~panicked /\ Room
    /\ Live(o) /\ Reach(o) /\ o.kind = "Value"
    /\ LET r   == value_to_desc(mv8, o.value)
           eng == EngineCalls(Engine, r.calls)
       IN /\ rc' = eng.rc
          /\ faults' = eng.faults
          /\ heap' = IF r.panic THEN heap ELSE Put(heap, HDesc(r.desc))
          /\ panicked' = r.panic
          /\ last' = ConvOp("value_to_desc", mv8, o, ~r.panic,
                            IF r.panic THEN HUnit ELSE HDesc(r.desc), r.calls, r.panic)
    /\ UNCHANGED tally

\* the instance whose entry point returned a descriptor
FromInstance(mv8, desc) ==
    desc.tag \in HandleTags => mv8 = InstanceOf(desc.payload.value_ptr)

\* desc_to_value(mv8, desc) on a live descriptor, which is consumed.
DescToValue(mv8, o) ==
    /\ ~panicked
    /\ Live(o) /\ Reach(o) /\ o.kind = "ValueDesc" /\ FromInstance(mv8, o.desc)
    /\ LET r   == desc_to_value(mv8, o.desc)
           eng == EngineCalls(Engine, r.calls)
       IN /\ rc' = eng.rc
          /\ faults' = eng.faults
          /\ heap' = Put(Take(heap, o), HValue(r.value))
          /\ last' = ConvOp("desc_to_value", mv8, o, TRUE, HValue(r.value), r.calls, FALSE)
    /\ UNCHANGED <<panicked, tally>>

\* An engine entry point of instance mv8 returns the TryCatchDesc tc, which
\* owns the reference the engine counted for it, and the host decomposes it.
Decompose(op, mv8, tc, r) ==
    /\ ~panicked /\ Room
    /\ FromInstance(mv8, tc.value_desc) /\ Reach(HDesc(tc.value_desc))
    /\ LET eng == EngineCalls(EngineReturns(Engine, tc.value_desc), r.calls)
       IN /\ rc' = eng.rc
          /\ faults' = eng.faults
          /\ heap' = Put(heap, r.obj)
          /\ last' = Op(op, mv8, HDesc(tc.value_desc), tc.is_exception, r.ok, r.obj,
                        r.calls, FALSE)
    /\ UNCHANGED <<panicked, tally>>

DescToResult(mv8, tc) ==
    Decompose("desc_to_result", mv8, tc, desc_to_result(mv8, tc))
DescToResultNoval(mv8, tc) ==
    Decompose("desc_to_result_noval", mv8, tc, desc_to_result_noval(mv8, tc))
DescToResultVal(mv8, tc) ==
    Decompose("desc_to_result_val", mv8, tc, desc_to_result_val(mv8, tc))

\* the host object that is an Error
HErr(e) == IF e.kind = "Value" THEN HError(e.value) ELSE HOther(e.kind)

\* the errors the host holds: those of the live Error::Value objects and the
\* ones it can make itself
LiveErrors ==
    {Error_Value(o.value) : o \in {x \in LiveObjs : x.kind = "Error::Value"}}
    \cup PlainErrors

\* Error::to_value(self, mv8): the Error is consumed. For the kinds other than
\* Value the engine makes a new object h of instance mv8, and each of the two
\* sets may fail (setok), which to_value ignores.
ToValue(mv8, e, h) ==
    /\ ~panicked
    /\ Live(HErr(e)) \/ e \in PlainErrors
    /\ IF e.kind = "Value"
       THEN /\ Reach(HErr(e)) /\ FromInstance(mv8, ValueDesc_new(e.value.variant,
                                                  VP_value_ptr(e.value.ref.value_ptr)))
            /\ h = 0
       ELSE /\ Room /\ h \in Handles
            /\ TypeOf(h) = "Object" /\ InstanceOf(h) = mv8 /\ rc[h] = 0
    /\ LET r   == Error_to_value(e, mv8, h)
           eng == IF r.created
                  THEN EngineReturns(Engine, ValueDesc_new("Object", VP_value_ptr(h)))
                  ELSE Engine
       IN /\ rc' = eng.rc
          /\ faults' = eng.faults
          /\ heap' = Put(Take(heap, HErr(e)), HValue(r.value))
          /\ \E setok \in [DOMAIN r.sets -> BOOLEAN] :
                last' = [Op("Error::to_value", mv8, HErr(e), 0, TRUE, HValue(r.value),
                            <<>>, FALSE)
                         EXCEPT !.err = e, !.sets = r.sets, !.setok = setok]
    /\ UNCHANGED <<panicked, tally>>

\* the ValuePtr create_object can get from instance mv8: a new Object
NewObjects(mv8) ==
    {h \in Handles : TypeOf(h) = "Object" /\ InstanceOf(h) = mv8 /\ rc[h] = 0}

Next ==
    \/ \E h \in Handles : Wrap(h)
    \/ \E o \in BagToSet(heap) : Clone(o)
    \/ \E o \in LiveObjs : Drop(o)
    \/ \E mv8 \in Interfaces, o \in LiveObjs : ValueToDesc(mv8, o)
    \/ \E mv8 \in Interfaces, o \in LiveObjs : DescToValue(mv8, o)
    \/ \E mv8 \in Interfaces, tc \in TryCatchDescs : DescToResult(mv8, tc)
    \/ \E mv8 \in Interfaces, tc \in TryCatchDescs : DescToResultNoval(mv8, tc)
    \/ \E mv8 \in Interfaces, tc \in TryCatchDescs : DescToResultVal(mv8, tc)
    \/ \E mv8 \in Interfaces, e \in LiveErrors :
          \E h \in (IF e.kind = "Value" THEN {0} ELSE NewObjects(mv8)) : ToValue(mv8, e, h)

Spec == Init /\ [][Next]_vars

(* --------------------------- Ref scenario ----------------------------- *)
\* One Ref is wrapped around a fresh handle, cloned up to MaxClones times, and
\* the Refs are dropped in any order; tally counts the engine calls issued.
NumCalls(calls, fn) == Cardinality({i \in DOMAIN calls : calls[i].fn = fn})

Tallied(t, clones, calls) ==
    [clones   |-> t.clones + clones,
     acquires |-> t.acquires + NumCalls(calls, "mv8_value_ptr_clone"),
     releases |-> t.releases + NumCalls(calls, "mv8_value_ptr_drop")]

RefsWrap(h) ==
    /\ last = NoOp
    /\ DoWrap(h)
    /\ tally' = Tallied(tally, 0, last'.calls)

RefsClone(o) ==
    /\ tally.clones < MaxClones
    /\ DoClone(o)
    /\ tally' = Tallied(tally, 1, last'.calls)

RefsDrop(o) ==
    /\ BagIn(o, heap)
    /\ DoDrop(o)
    /\ tally' = Tallied(tally, 0, last'.calls)

NextRefs ==
    \/ \E h \in Handles : RefsWrap(h)
    \/ \E o \in BagToSet(heap) : RefsClone(o)
    \/ \E o \in BagToSet(heap) : RefsDrop(o)

SpecRefs == Init /\ [][NextRefs]_vars

(* ------------------------------ claims -------------------------------- *)
Decompositions == {"desc_to_result", "desc_to_result_noval", "desc_to_result_val"}

\* C1: after any sequence of wrap, clone, lower, lift, decomposition and drop,
\* the engine's reference count of every handle equals the number of live
\* host-side owners of it, and the engine never saw a release or an acquire of
\* a handle without references (no double free, no leak, on Ok and Err paths).
C1_RefCountIsOwners ==
    /\ faults = {}
    /\ \A h \in Handles : rc[h] = Owners(h)

\* an Error::Value was dropped while a Value and a descriptor of the same
\* handle stay alive
C1_Witness ==
    /\ last.op = "drop" /\ last.arg.kind = "Error::Value"
    /\ \E v, d \in BagToSet(heap) :
          /\ v.kind = "Value" /\ d.kind = "ValueDesc"
          /\ OwnedHandle(v) = OwnedHandle(last.arg)
          /\ OwnedHandle(d) = OwnedHandle(last.arg)
          /\ rc[OwnedHandle(v)] = 2

\* C2: from one Ref made by Ref::new (no engine call), N clones issue exactly
\* N acquires, every Ref destruction issues exactly one release, and when all
\* N+1 Refs are dropped exactly N+1 releases were issued.
C2_ClonesAndReleases ==
    /\ last.op = "Ref::new" => last.calls = <<>> /\ tally = NoTally
    /\ tally.acquires = tally.clones
    /\ last.op # "-" => tally.releases + BagCardinality(heap) = tally.clones + 1
    /\ (last.op # "-" /\ heap = EmptyBag) => tally.releases = tally.clones + 1

C2_Witness ==
    /\ heap = EmptyBag
    /\ tally.clones >= 3
    /\ tally.releases = tally.clones + 1

\* C3: value_to_desc on a handle-backed Value of the target instance issues
\* exactly one acquire and no release, returns a descriptor of the same tag
\* and handle that owns a new reference, leaves the Value alive (count + 1);
\* dropping either of them afterwards releases the handle exactly once.
C3_Step ==
    /\ (last'.op = "value_to_desc" /\ OwnedHandle(last'.arg) # 0 /\ ~last'.panic) =>
          LET h == OwnedHandle(last'.arg)
          IN /\ last'.calls = <<CloneCall(last'.mv8, h)>>
             /\ last'.ret = HDesc(ValueDesc_new(last'.arg.value.variant, VP_value_ptr(h)))
             /\ rc' = [rc EXCEPT ![h] = @ + 1]
             /\ heap' = heap (+) SetToBag({last'.ret})
             /\ BagIn(last'.arg, heap')
             /\ faults' = {}
    /\ (last'.op = "drop" /\ OwnedHandle(last'.arg) # 0) =>
          LET h == OwnedHandle(last'.arg)
          IN /\ last'.calls = <<DropCall(h)>>
             /\ rc[h] >= 1 /\ rc' = [rc EXCEPT ![h] = @ - 1]
             /\ faults' = {}

C3_LowerKeepsSource == [][C3_Step]_vars

\* a handle-backed Value was lowered: it and its descriptor are both alive
C3_Witness ==
    /\ last.op = "value_to_desc" /\ ~last.panic /\ OwnedHandle(last.arg) # 0
    /\ BagIn(last.arg, heap) /\ BagIn(last.ret, heap)
    /\ rc[OwnedHandle(last.arg)] = 2

\* C4: desc_to_value on a handle-backed descriptor moves the handle into the
\* new Ref with no acquire and no release (the descriptor's destructor does
\* not run), and the handle is released exactly once, when the Value drops.
C4_Step ==
    /\ (last'.op = "desc_to_value" /\ OwnedHandle(last'.arg) # 0) =>
          LET h == OwnedHandle(last'.arg)
          IN /\ last'.calls = <<>>
             /\ last'.ret = HValue(Value_Handle(last'.arg.desc.tag, Ref_new(last'.mv8, h)))
             /\ rc' = rc /\ rc[h] >= 1
             /\ heap' = (heap (-) SetToBag({last'.arg})) (+) SetToBag({last'.ret})
             /\ faults' = {}
    /\ (last'.op = "drop" /\ last'.arg.kind = "Value" /\ OwnedHandle(last'.arg) # 0) =>
          LET h == OwnedHandle(last'.arg)
          IN /\ last'.calls = <<DropCall(h)>>
             /\ rc[h] >= 1 /\ rc' = [rc EXCEPT ![h] = @ - 1]
             /\ faults' = {}

C4_LiftMovesHandle == [][C4_Step]_vars

\* a descriptor was lifted: its Value is the only owner of the handle
C4_Witness ==
    /\ last.op = "desc_to_value" /\ OwnedHandle(last.arg) # 0
    /\ BagIn(last.ret, heap) /\ ~BagIn(last.arg, heap)
    /\ rc[OwnedHandle(last.arg)] = 1

\* v is the lift of descriptor d by instance mv8: same variant, same scalar or
\* same handle
IsLiftOf(v, mv8, d) ==
    /\ v.variant = d.tag
    /\ d.tag = "Boolean" => v.b = (d.payload.byte # 0)
    /\ d.tag \in {"Number", "Date"} => v.f = d.payload.number
    /\ d.tag \in HandleTags => v.ref = [mv8 |-> mv8, value_ptr |-> d.payload.value_ptr]
    /\ d.tag \notin HandleTags => v.ref = NoRef
    /\ d.tag # "Boolean" => v.b = FALSE
    /\ d.tag \notin {"Number", "Date"} => v.f = 0

\* C5: each of the three decompositions returns Ok for a TryCatchDesc whose
\* exception flag is unset (is_exception = 0) and Err(Error::Value(v)), v the
\* lift of the payload, for one whose flag is set (is_exception = 1).
C5_FlagDecides ==
    last.op \in Decompositions =>
        /\ last.flag = 0 => last.ok
        /\ last.flag = 1 =>
              /\ ~last.ok
              /\ last.ret.kind = "Error::Value"
              /\ IsLiftOf(last.ret.value, last.mv8, last.arg.desc)

\* desc_to_result_val returned Err carrying a handle-backed exception
C5_Witness ==
    /\ last.op = "desc_to_result_val" /\ last.flag = 1 /\ ~last.ok
    /\ OwnedHandle(last.ret) # 0
    /\ BagIn(last.ret, heap)

\* C6: for every is_exception byte and payload the three decompositions all
\* return Ok or all return Err.
C6_SameCheck ==
    last.op \in Decompositions =>
        LET tc == [value_desc |-> last.arg.desc, is_exception |-> last.flag]
        IN /\ desc_to_result(last.mv8, tc).ok = desc_to_result_noval(last.mv8, tc).ok
           /\ desc_to_result(last.mv8, tc).ok = desc_to_result_val(last.mv8, tc).ok

\* C7: desc_to_result_noval, on a descriptor it takes for a success, issues
\* exactly one release and no acquire for a handle-backed payload; on an
\* inline payload it issues no engine call.
C7_NovalReleases ==
    last.op = "desc_to_result_noval" =>
        /\ (last.ok /\ last.arg.desc.tag \in HandleTags) =>
              /\ last.calls = <<DropCall(last.arg.desc.payload.value_ptr)>>
              /\ last.ret = HUnit
        /\ last.arg.desc.tag \in InlineTags => last.calls = <<>>

\* the discarded success payload was the only reference to its handle
C7_Witness ==
    /\ last.op = "desc_to_result_noval" /\ last.ok
    /\ last.arg.desc.tag \in HandleTags
    /\ rc[last.arg.desc.payload.value_ptr] = 0

\* C8: value_to_desc on instance B with a handle-backed Value of instance A
\* panics without any engine call (no count changes); with a Value of the
\* same instance or an inline Value it does not panic.
C8_Step ==
    last'.op = "value_to_desc" =>
        LET v     == last'.arg.value
            cross == v.variant \in HandleTags /\ v.ref.mv8 # last'.mv8
        IN /\ cross => /\ last'.panic /\ panicked'
                       /\ last'.calls = <<>>
                       /\ rc' = rc /\ heap' = heap /\ faults' = faults
           /\ ~cross => ~last'.panic /\ ~panicked' /\ last'.ok

C8_CrossInstancePanics == [][C8_Step]_vars

C8_Witness ==
    /\ panicked /\ last.op = "value_to_desc" /\ last.panic
    /\ last.arg.value.ref.mv8 # last.mv8
    /\ rc[OwnedHandle(last.arg)] = 1

\* C9: for every inline Value v, lifting the descriptor that value_to_desc made
\* of v gives v back (same variant, same payload), and neither step issues an
\* engine call.
C9_InlineRoundTrip ==
    /\ (last.op = "value_to_desc" /\ last.arg.value.variant \in InlineTags) =>
          last.calls = <<>> /\ ~last.panic
    /\ (last.op = "desc_to_value" /\ last.from.kind = "Value"
            /\ last.from.value.variant \in InlineTags) =>
          /\ last.ret = last.from
          /\ last.calls = <<>>

\* Date(1) went through value_to_desc and desc_to_value
C9_Witness ==
    /\ last.op = "desc_to_value"
    /\ last.from = HValue(Value_Date(1))
    /\ last.ret = HValue(Value_Date(1))

\* C10: the destruction of an un-consumed descriptor issues exactly one
\* release of its handle for the tags String, Array, Function and Object, and
\* no engine call for Null, Undefined, Number, Boolean and Date.
C10_DescDrop ==
    (last.op = "drop" /\ last.arg.kind = "ValueDesc") =>
        /\ last.arg.desc.tag \in {"String", "Array", "Function", "Object"} =>
              last.calls = <<DropCall(last.arg.desc.payload.value_ptr)>>
        /\ last.arg.desc.tag \in {"Null", "Undefined", "Number", "Boolean", "Date"} =>
              last.calls = <<>>

\* a Function descriptor was destroyed
C10_Witness ==
    /\ last.op = "drop" /\ last.arg.kind = "ValueDesc"
    /\ last.arg.desc.tag = "Function"
    /\ last.calls # <<>>

\* C11: desc_to_result_val, on a descriptor it takes for a success, returns
\* the embedded descriptor itself (same tag, same payload), now owned by the
\* caller; on an exception it returns Err(Error::Value(v)), v the lift of the
\* payload; in both cases it issues no acquire and no release.
C11_ValKeepsDescriptor ==
    last.op = "desc_to_result_val" =>
        /\ last.calls = <<>>
        /\ last.ok => /\ last.ret = last.arg
                      /\ last.ret.kind = "ValueDesc"
        /\ ~last.ok => /\ last.ret.kind = "Error::Value"
                       /\ IsLiftOf(last.ret.value, last.mv8, last.arg.desc)
        /\ OwnedHandle(last.ret) # 0 => BagIn(last.ret, heap)
        /\ OwnedHandle(last.ret) = OwnedHandle(last.arg)

\* a handle-backed success descriptor came back and is owned by the host
C11_Witness ==
    /\ last.op = "desc_to_result_val" /\ last.ok
    /\ last.arg.desc.tag \in HandleTags
    /\ BagIn(last.ret, heap)
    /\ rc[OwnedHandle(last.ret)] = 1

\* C12: the three decompositions never panic: for every tag, payload and flag
\* they return Ok (of their own payload type) or Err, every Err is
\* Error::Value, and a set exception flag always gives Err(Error::Value(_)).
C12_OkOrErrorValue ==
    last.op \in Decompositions =>
        /\ ~last.panic /\ ~panicked
        /\ last.ok =>
              last.ret.kind = (CASE last.op = "desc_to_result"       -> "Value"
                                 [] last.op = "desc_to_result_noval" -> "()"
                                 [] OTHER                            -> "ValueDesc")
        /\ ~last.ok => /\ last.ret.kind = "Error::Value"
                       /\ last.ret.value.variant = last.arg.desc.tag
        /\ last.flag = 1 => ~last.ok
        /\ last.arg.desc.tag \in ValueDescTag

\* desc_to_result_noval turned an Object exception into Err(Error::Value)
C12_Witness ==
    /\ last.op = "desc_to_result_noval" /\ ~last.ok
    /\ last.ret.kind = "Error::Value" /\ last.ret.value.variant = "Object"

\* C13: Error::to_value returns the Value of Error::Value(v) itself (no object
\* made, no property set, no acquire or release, the reference moves from the
\* Error to the Value), and for every other kind returns a newly created
\* Object of the instance on which name and then message were set.
C13_Step ==
    last'.op = "Error::to_value" =>
        /\ last'.calls = <<>>
        /\ last'.err.kind = "Value" =>
              /\ last'.ret = HValue(last'.err.value)
              /\ last'.sets = <<>>
              /\ rc' = rc /\ faults' = faults
              /\ heap' = Put(Take(heap, last'.arg), last'.ret)
              /\ OwnedHandle(last'.arg) # 0 => BagIn(last'.arg, heap)
        /\ last'.err.kind # "Value" =>
              LET h == OwnedHandle(last'.ret)
              IN /\ last'.err.kind \in {"ToJsConversionError", "FromJsConversionError",
                                        "RecursiveMutCallback", "NotAFunction",
                                        "ExternalError"}
                 /\ h \in Handles /\ rc[h] = 0 /\ rc' = [rc EXCEPT ![h] = 1]
                 /\ last'.ret = HValue(Value_Handle("Object", Ref_new(last'.mv8, h)))
                 /\ heap' = heap (+) SetToBag({last'.ret})
                 /\ [i \in DOMAIN last'.sets |-> last'.sets[i].key] = <<"name", "message">>

C13_ToValue == [][C13_Step]_vars

\* a handle-backed exception passed through: the Value owns the reference the
\* Error owned
C13_Witness ==
    /\ last.op = "Error::to_value" /\ last.err.kind = "Value"
    /\ OwnedHandle(last.ret) # 0
    /\ BagIn(last.ret, heap) /\ ~BagIn(last.arg, heap)
    /\ rc[OwnedHandle(last.ret)] = 1

\* C15: Error::to_value sets name to "TypeError" exactly for
\* ToJsConversionError, FromJsConversionError and NotAFunction and to "Error"
\* exactly for RecursiveMutCallback and ExternalError; message is the error's
\* Display string; an Object is returned whether or not the sets succeed.
C15_NameAndMessage ==
    (last.op = "Error::to_value" /\ last.err.kind # "Value") =>
        /\ Len(last.sets) = 2 /\ Len(last.setok) = 2
        /\ last.sets[1].key = "name"
        /\ (last.sets[1].value = <<"TypeError">>) <=>
              last.err.kind \in {"ToJsConversionError", "FromJsConversionError", "NotAFunction"}
        /\ (last.sets[1].value = <<"Error">>) <=>
              last.err.kind \in {"RecursiveMutCallback", "ExternalError"}
        /\ last.sets[2].key = "message"
        /\ last.sets[2].value =
              (CASE last.err.kind = "ToJsConversionError" ->
                      <<"error converting ", last.err.from, " to JavaScript ", last.err.to>>
                 [] last.err.kind = "FromJsConversionError" ->
                      <<"error converting JavaScript ", last.err.from, " to ", last.err.to>>
                 [] last.err.kind = "RecursiveMutCallback" ->
                      <<"mutable callback called recursively">>
                 [] last.err.kind = "NotAFunction" -> <<"tried to a call a non-function">>
                 [] OTHER -> <<last.err.ext>>)
        /\ last.ret.kind = "Value" /\ last.ret.value.variant = "Object"
        /\ BagIn(last.ret, heap)

\* NotAFunction became an Object although both sets failed
C15_Witness ==
    /\ last.op = "Error::to_value" /\ last.err.kind = "NotAFunction"
    /\ last.setok = <<FALSE, FALSE>>
    /\ last.ret.value.variant = "Object" /\ BagIn(last.ret, heap)

OwnersIn(bag, h) == CountOwners(h, bag, BagToSet(bag))
CallsOf(calls, fn, h) ==
    Cardinality({i \in DOMAIN calls : calls[i].fn = fn /\ calls[i].value = h})

\* the operation handed the host one new owned reference to h from the engine
Produced(op, h) ==
    \/ op.op \in Decompositions /\ OwnedHandle(op.arg) = h
    \/ op.op = "Ref::new" /\ OwnedHandle(op.ret) = h
    \/ op.op = "Error::to_value" /\ op.err.kind # "Value" /\ OwnedHandle(op.ret) = h

\* C14: releases are not deferred or batched: in every step the releases
\* issued are exactly those of the owners destroyed in that step (the drop of
\* a Ref or of an un-consumed descriptor, the success payload discarded by
\* desc_to_result_noval), and the engine has counted them when the step ends;
\* one step destroys one owner, so releases are issued in destruction order.
C14_Step ==
    /\ \A h \in Handles :
          LET delta == (IF Produced(last', h) THEN 1 ELSE 0)
                       + CallsOf(last'.calls, "mv8_value_ptr_clone", h)
                       - CallsOf(last'.calls, "mv8_value_ptr_drop", h)
          IN /\ OwnersIn(heap', h) = OwnersIn(heap, h) + delta
             /\ rc'[h] = rc[h] + delta
    /\ (last'.op = "drop" /\ OwnedHandle(last'.arg) # 0) =>
          /\ last'.calls = <<DropCall(OwnedHandle(last'.arg))>>
          /\ heap' = heap (-) SetToBag({last'.arg})
    /\ (last'.op = "desc_to_result_noval" /\ last'.ok /\ OwnedHandle(last'.arg) # 0) =>
          /\ last'.calls = <<DropCall(OwnedHandle(last'.arg))>>
          /\ heap' = heap
    /\ Len(last'.calls) <= 1

C14_ReleasesAreImmediate == [][C14_Step]_vars

\* a descriptor was destroyed while another owner of its handle lives on
C14_Witness ==
    /\ last.op = "drop" /\ last.arg.kind = "ValueDesc" /\ OwnedHandle(last.arg) # 0
    /\ rc[OwnedHandle(last.arg)] = 1
    /\ last.calls = <<DropCall(OwnedHandle(last.arg))>>

\* C16: no use after release: every acquire (Ref::clone, the clone made by
\* value_to_desc) and every lift (Ref::from_value_desc) is applied to a handle
\* that the engine counts at least one reference for at that moment, held by
\* a live owner.
C16_Step ==
    /\ \A i \in DOMAIN last'.calls :
          last'.calls[i].fn = "mv8_value_ptr_clone" =>
              /\ rc[last'.calls[i].value] >= 1
              /\ Owners(last'.calls[i].value) >= 1
              /\ BagIn(last'.arg, heap)
    /\ (last'.op = "desc_to_value" /\ OwnedHandle(last'.arg) # 0) =>
          /\ rc[OwnedHandle(last'.arg)] >= 1
          /\ BagIn(last'.arg, heap)
    /\ (last'.op \in Decompositions /\ last'.ret.kind \in {"Value", "Error::Value"}
            /\ OwnedHandle(last'.ret) # 0) =>
          rc'[OwnedHandle(last'.ret)] >= 1
    /\ "use_after_release" \notin faults'

C16_NoUseAfterRelease == [][C16_Step]_vars

\* a Ref was cloned while two owners of its handle were alive
C16_Witness ==
    /\ last.op = "Ref::clone"
    /\ rc[OwnedHandle(last.arg)] = 3
    /\ CopiesIn(last.ret, heap) >= 2

\* C17: value_to_desc gives each of the 9 Value variants the tag of the same
\* name and desc_to_value gives each tag the variant of the same name; for a
\* handle-backed Value, lowering (one acquire) and lifting the result (no
\* engine call) gives a Value of the same variant, instance and handle that
\* holds a reference of its own beside the source.
C17_VariantPreserved ==
    /\ (last.op = "value_to_desc" /\ ~last.panic) =>
          /\ last.arg.value.variant \in ValueDescTag
          /\ last.ret.desc.tag = last.arg.value.variant
          /\ OwnedHandle(last.arg) # 0 =>
                last.calls = <<CloneCall(last.mv8, OwnedHandle(last.arg))>>
    /\ last.op = "desc_to_value" =>
          /\ last.arg.desc.tag \in ValueDescTag
          /\ last.ret.value.variant = last.arg.desc.tag
          /\ last.calls = <<>>
    /\ (last.op = "desc_to_value" /\ last.from.kind = "Value" /\ OwnedHandle(last.from) # 0) =>
          /\ last.ret.value.variant = last.from.value.variant
          /\ last.ret.value.ref.mv8 = last.from.value.ref.mv8
          /\ last.ret.value.ref.value_ptr = last.from.value.ref.value_ptr
          /\ CopiesIn(last.ret, heap) >= 2
          /\ rc[OwnedHandle(last.ret)] >= 2

\* a Function went through value_to_desc and desc_to_value
C17_Witness ==
    /\ last.op = "desc_to_value" /\ last.from.kind = "Value"
    /\ last.from.value.variant = "Function"
    /\ CopiesIn(last.ret, heap) = 2
    /\ rc[OwnedHandle(last.ret)] = 2

\* C18: for a Boolean descriptor d with byte b, lowering the lift of d gives
\* the byte 1 if b # 0 and 0 otherwise, and the lift of that descriptor is the
\* same Value as the lift of d.
C18_BooleanByte ==
    (last.op = "value_to_desc" /\ last.from.kind = "ValueDesc"
        /\ last.from.desc.tag = "Boolean") =>
        LET b == last.from.desc.payload.byte
        IN /\ last.arg = HValue(Value_Boolean(b # 0))
           /\ last.ret = HDesc(ValueDesc_new("Boolean", VP_byte(IF b # 0 THEN 1 ELSE 0)))
           /\ desc_to_value(last.mv8, last.ret.desc).value = last.arg.value
           /\ last.calls = <<>>

\* the byte 2 was lifted as true and lowered as 1
C18_Witness ==
    /\ last.op = "value_to_desc" /\ last.from.kind = "ValueDesc"
    /\ last.from.desc = ValueDesc_new("Boolean", VP_byte(2))
    /\ last.ret.desc.payload.byte = 1

====
